---- MODULE Spec2Model ----
(***************************************************************************)
(* A model of cspstiff.py: the CSPSTiff layer store (add_layer,            *)
(* _prep_layers, write) and the module-level parameter dictionary          *)
(* TIFFIMAGESOURCEDATA_PARAMS_DICT that write mutates and restores.        *)
(*                                                                         *)
(* An ndarray is a record [shape, data]: shape is the tuple (h, w, c) and  *)
(* data maps every index <<row, col, channel>> (0-based) to its sample.    *)
(* write is modelled statement by statement (one action per statement of   *)
(* lines 140-174), so that two write calls can be interleaved in SpecConc; *)
(* in Spec the program is single-threaded: a call runs to its end before   *)
(* any other call starts.                                                  *)
(***************************************************************************)
EXTENDS Integers, Sequences, FiniteSets, TLC

VARIABLES
    shape,                  \* shape[s]: self.shape of store s (None or <<h, w>>)
    layers,                 \* layers[s]: self.layers, a sequence of <<img, offset>>
    TIFFIMAGESOURCEDATA_PARAMS_DICT,   \* the module-level dictionary
    pc,                     \* pc[s]: the statement of write the call on s is at
    filepath,               \* write's argument
    ll,                     \* write's local ll (line 144)
    image_source_data,      \* write's local image_source_data (line 151)
    composite,              \* write's local composite (line 153)
    calls,                  \* history: the add_layer calls made on s, each with
                            \* its arguments and the notices it printed
    outcome,                \* outcome[s]: how the last write call on s ended
    written,                \* written[s]: what the last imwrite of s put on disk
    writtenFrom,            \* history: the store state written[s] was made from
    clobbered               \* history: another call assigned the dictionary's
                            \* 'layers' after this call's line 149

vars == <<shape, layers, TIFFIMAGESOURCEDATA_PARAMS_DICT, pc, filepath, ll,
          image_source_data, composite, calls, outcome, written, writtenFrom,
          clobbered>>

(***************************************************************************)
(* Bounds of the model.                                                    *)
(***************************************************************************)
\* add_layer calls made in one run, over all stores (the code has no cap)
MaxLayers == 2

\* the store objects of a run
Stores == {1, 2}

\* Python's None, for the values that are tuples or objects
None == <<>>

\* no value: write's argument outside a call, the outcome while none has ended
NoCall == "-"

\* shapes a store is constructed with (None: take it from the first layer)
InitShapes == {None, <<2, 1>>}

\* (height, width) of the arrays given to add_layer
ImgShapes == {<<1, 2>>, <<2, 1>>}

\* channel counts of the arrays given to add_layer
ImgChannels == {3, 4}

\* offsets given to add_layer
Offsets == {<<0, 0>>, <<1, 0>>}

\* paths given to write: one that can be written, one in a missing directory
WritablePath == "out.tif"

Filepaths == {WritablePath, "missing_dir/out.tif"}

(***************************************************************************)
(* ndarrays.                                                               *)
(***************************************************************************)
Idx(h, w, c) == (0 .. h - 1) \X (0 .. w - 1) \X (0 .. c - 1)

\* uint8 samples: numpy casts what is stored into a uint8 array to 8 bits
uint8(v) == v % 256

\* an input array of dtype uint8
Img(h, w, c) ==
    [shape |-> <<h, w, c>>,
     data |-> [p \in Idx(h, w, c) |->
                 uint8(100 * h + 90 * c + 40 * p[1] + 20 * p[2] + 7 * p[3])]]

Imgs == {Img(hw[1], hw[2], c) : hw \in ImgShapes, c \in ImgChannels}

\* the arrays given to add_layer by the two threads of SpecConc
ConcImgs == {Img(1, 2, 4), Img(2, 1, 3)}

\* img.shape[:2]
shape2(img) == <<img.shape[1], img.shape[2]>>

\* layer[..., k]
plane(img, k) ==
    [p \in (0 .. img.shape[1] - 1) \X (0 .. img.shape[2] - 1) |->
        img.data[<<p[1], p[2], k>>]]

(***************************************************************************)
(* CSPSTiff.__init__ and the module-level dictionary.                      *)
(***************************************************************************)
PARAMS_DICT_INIT ==
    [name |-> "Layered TIFF",
     psdformat |-> "LE32BIT",
     layers |-> None,
     usermask |-> [colorspace |-> "RGB", components |-> <<65535, 0, 0, 0>>,
                   opacity |-> 50],
     info |-> << [empty |-> "PATTERNS"],
                 [colorspace |-> "RGB", components |-> <<65535, 0, 0, 0>>,
                  opacity |-> 50] >>]

Init ==
    /\ shape \in [Stores -> InitShapes]
    /\ layers = [s \in Stores |-> <<>>]
    /\ TIFFIMAGESOURCEDATA_PARAMS_DICT = PARAMS_DICT_INIT
    /\ pc = [s \in Stores |-> "idle"]
    /\ filepath = [s \in Stores |-> NoCall]
    /\ ll = [s \in Stores |-> None]
    /\ image_source_data = [s \in Stores |-> None]
    /\ composite = [s \in Stores |-> None]
    /\ calls = [s \in Stores |-> <<>>]
    /\ outcome = [s \in Stores |-> NoCall]
    /\ written = [s \in Stores |-> None]
    /\ writtenFrom = [s \in Stores |-> None]
    /\ clobbered = [s \in Stores |-> FALSE]

(***************************************************************************)
(* CSPSTiff.add_layer.                                                     *)
(***************************************************************************)
alpha_value == 128

\* mutant of rgba_image: the alpha plane filled with 255 (opaque)
rgba_image_opaque(img) ==
    [shape |-> <<img.shape[1], img.shape[2], 4>>,
     data |-> [p \in Idx(img.shape[1], img.shape[2], 4) |->
                 IF p[3] < 3 THEN uint8(img.data[p]) ELSE 255]]

\* lines 68-72: the RGBA array made of a 3-channel one
rgba_image(img) ==
    [shape |-> <<img.shape[1], img.shape[2], 4>>,
     data |-> [p \in Idx(img.shape[1], img.shape[2], 4) |->
                 IF p[3] < 3 THEN uint8(img.data[p]) ELSE uint8(alpha_value)]]

\* lines 66-72
normalized(img) == IF img.shape[3] = 3 THEN rgba_image(img) ELSE img

\* mutant of shape_after: the shape follows the latest layer
shape_after_latest(sh, img) == shape2(img)

\* lines 75-76: self.shape after the call
shape_after(sh, img) == IF sh = None THEN shape2(img) ELSE sh

\* mutant of appended: the new entry goes to the front of the list
appended_front(ls, img, offset) == <<(<<img, offset>>)>> \o ls

\* line 80
appended(ls, img, offset) == Append(ls, <<img, offset>>)

\* lines 67 and 78: what the call prints
notices(sh, img) ==
    (IF img.shape[3] = 3 THEN {"IMG HAS ONLY 3 CHANNELS"} ELSE {})
    \cup (IF sh # None /\ shape2(normalized(img)) # sh THEN {"IMG shape"} ELSE {})

TotalLayers == Len(layers[1]) + Len(layers[2])

add_layer(s, img, offset) ==
    /\ pc[s] = "idle"
    /\ TotalLayers < MaxLayers
    /\ shape' = [shape EXCEPT ![s] = shape_after(shape[s], normalized(img))]
    /\ layers' = [layers EXCEPT ![s] = appended(layers[s], normalized(img), offset)]
    /\ calls' = [calls EXCEPT ![s] =
                    Append(calls[s], [img |-> img, offset |-> offset,
                                      printed |-> notices(shape[s], img)])]
    /\ UNCHANGED <<TIFFIMAGESOURCEDATA_PARAMS_DICT, pc, filepath, ll,
                   image_source_data, composite, outcome, written, writtenFrom,
                   clobbered>>

(***************************************************************************)
(* CSPSTiff._prep_layers.                                                  *)
(***************************************************************************)
\* mutant of layer_name: names counted from 1
layer_name_from_one(layer_num) == "layer_" \o ToString(layer_num + 1)

\* line 90: f"layer_{layer_num}"
layer_name(layer_num) == "layer_" \o ToString(layer_num)

\* mutant of PsdRectangle: height and width taken for each other
PsdRectangle_swapped(layer, offset) ==
    <<offset[1], offset[2], offset[1] + layer.shape[2], offset[2] + layer.shape[1]>>

\* lines 93-98: PsdRectangle(top, left, bottom, right)
PsdRectangle(layer, offset) ==
    <<offset[1], offset[2], offset[1] + layer.shape[1], offset[2] + layer.shape[2]>>

\* lines 100-104, 105-119
PsdChannel(channelid, layer, k) ==
    [channelid |-> channelid, compression |-> "ZIP_PREDICTED", data |-> plane(layer, k)]

\* lines 91-129
PsdLayer(layer, offset, layer_num) ==
    [name |-> layer_name(layer_num),
     rectangle |-> PsdRectangle(layer, offset),
     channels |-> << PsdChannel("TRANSPARENCY_MASK", layer, 3),
                     PsdChannel("CHANNEL0", layer, 0),
                     PsdChannel("CHANNEL1", layer, 1),
                     PsdChannel("CHANNEL2", layer, 2) >>,
     opacity |-> 255,
     blendmode |-> "NORMAL",
     clipping |-> "BASE",
     flags |-> {"PHOTOSHOP5", "TRANSPARENCY_PROTECTED"},
     info |-> << [key |-> "UNICODE_LAYER_NAME", value |-> layer_name(layer_num)] >>]

\* lines 87-133: layer_num starts at 0 and grows by one per layer
_prep_layers(ls) == [i \in 1 .. Len(ls) |-> PsdLayer(ls[i][1], ls[i][2], i - 1)]

(***************************************************************************)
(* psdtags.overlay, called at line 153: alpha-over compositing of the      *)
(* layers, in order, onto a zero-filled canvas of the given shape, each    *)
(* layer placed at its offset and clipped to the canvas.  The library is   *)
(* not part of the repository: this is its contract as the specification   *)
(* (section 4.1) gives it, on 8-bit samples with integer arithmetic.       *)
(***************************************************************************)
over(dst, layer, offset, p) ==
    LET r == p[1] - offset[1]
        c == p[2] - offset[2]
    IN  IF r \in 0 .. layer.shape[1] - 1 /\ c \in 0 .. layer.shape[2] - 1
        THEN LET a == layer.data[<<r, c, 3>>]
             IN  IF p[3] < 3
                 THEN (layer.data[<<r, c, p[3]>>] * a + dst[p] * (255 - a)) \div 255
                 ELSE a + (dst[p] * (255 - a)) \div 255
        ELSE dst[p]

RECURSIVE overlay_from(_, _, _, _)
overlay_from(acc, ls, i, sh) ==
    IF i > Len(ls) THEN acc
    ELSE overlay_from([p \in Idx(sh[1], sh[2], 4) |-> over(acc, ls[i][1], ls[i][2], p)],
                      ls, i + 1, sh)

overlay(ls, sh) ==
    [shape |-> <<sh[1], sh[2], 4>>,
     data |-> overlay_from([p \in Idx(sh[1], sh[2], 4) |-> 0], ls, 1, sh)]

(***************************************************************************)
(* CSPSTiff.write, one action per statement.                               *)
(***************************************************************************)
\* the call: write(filepath) enters its body
write_call(s, path) ==
    /\ pc[s] = "idle"
    /\ pc' = [pc EXCEPT ![s] = "check"]
    /\ filepath' = [filepath EXCEPT ![s] = path]
    /\ outcome' = [outcome EXCEPT ![s] = NoCall]
    /\ UNCHANGED <<shape, layers, TIFFIMAGESOURCEDATA_PARAMS_DICT, ll,
                   image_source_data, composite, calls, written, writtenFrom,
                   clobbered>>

\* an exception leaves write: its locals are gone, nothing else is touched
raised(s, exc) ==
    /\ pc' = [pc EXCEPT ![s] = "idle"]
    /\ outcome' = [outcome EXCEPT ![s] = exc]
    /\ filepath' = [filepath EXCEPT ![s] = NoCall]
    /\ ll' = [ll EXCEPT ![s] = None]
    /\ image_source_data' = [image_source_data EXCEPT ![s] = None]
    /\ composite' = [composite EXCEPT ![s] = None]
    /\ clobbered' = [clobbered EXCEPT ![s] = FALSE]

\* mutant of write_check: the check made after the dictionary is assigned
write_check_late(s) ==
    /\ pc[s] = "check"
    /\ TIFFIMAGESOURCEDATA_PARAMS_DICT' =
           [TIFFIMAGESOURCEDATA_PARAMS_DICT EXCEPT !.layers =
               [key |-> "LAYER", has_transparency |-> FALSE,
                layers |-> _prep_layers(layers[s])]]
    /\ IF Len(layers[s]) = 0
       THEN raised(s, "Exception: not enough layers")
       ELSE /\ pc' = [pc EXCEPT ![s] = "prep"]
            /\ UNCHANGED <<filepath, ll, image_source_data, composite, outcome,
                           clobbered>>
    /\ UNCHANGED <<shape, layers, calls, written, writtenFrom>>

\* lines 140-141
write_check(s) ==
    /\ pc[s] = "check"
    /\ IF Len(layers[s]) = 0
       THEN raised(s, "Exception: not enough layers")
       ELSE /\ pc' = [pc EXCEPT ![s] = "prep"]
            /\ UNCHANGED <<filepath, ll, image_source_data, composite, outcome,
                           clobbered>>
    /\ UNCHANGED <<shape, layers, TIFFIMAGESOURCEDATA_PARAMS_DICT, calls, written,
                   writtenFrom>>

\* lines 144-147
write_prep(s) ==
    /\ pc[s] = "prep"
    /\ ll' = [ll EXCEPT ![s] = [key |-> "LAYER", has_transparency |-> FALSE,
                                layers |-> _prep_layers(layers[s])]]
    /\ pc' = [pc EXCEPT ![s] = "set"]
    /\ UNCHANGED <<shape, layers, TIFFIMAGESOURCEDATA_PARAMS_DICT, filepath,
                   image_source_data, composite, calls, outcome, written,
                   writtenFrom, clobbered>>

\* the calls whose read of the dictionary (line 151) comes after their own
\* assignment to it (line 149) and is still to come
awaiting_read(s) == {t \in Stores \ {s} : pc[t] = "build"}

\* mutant of write_set: the dictionary is not assigned
write_set_skipped(s) ==
    /\ pc[s] = "set"
    /\ pc' = [pc EXCEPT ![s] = "build"]
    /\ UNCHANGED <<shape, layers, TIFFIMAGESOURCEDATA_PARAMS_DICT, filepath, ll,
                   image_source_data, composite, calls, outcome, written,
                   writtenFrom, clobbered>>

\* line 149
write_set(s) ==
    /\ pc[s] = "set"
    /\ TIFFIMAGESOURCEDATA_PARAMS_DICT' =
           [TIFFIMAGESOURCEDATA_PARAMS_DICT EXCEPT !.layers = ll[s]]
    /\ pc' = [pc EXCEPT ![s] = "build"]
    /\ clobbered' = [t \in Stores |-> clobbered[t] \/ t \in awaiting_read(s)]
    /\ UNCHANGED <<shape, layers, filepath, ll, image_source_data, composite, calls,
                   outcome, written, writtenFrom>>

\* line 151: TiffImageSourceData(**TIFFIMAGESOURCEDATA_PARAMS_DICT)
write_build(s) ==
    /\ pc[s] = "build"
    /\ image_source_data' =
           [image_source_data EXCEPT ![s] = TIFFIMAGESOURCEDATA_PARAMS_DICT]
    /\ pc' = [pc EXCEPT ![s] = "overlay"]
    /\ UNCHANGED <<shape, layers, TIFFIMAGESOURCEDATA_PARAMS_DICT, filepath, ll,
                   composite, calls, outcome, written, writtenFrom, clobbered>>

\* mutant of overlay_shape: the first layer's shape instead of self.shape
overlay_shape_first_layer(s) == shape2(layers[s][1][1])

\* line 153: the shape argument of overlay
overlay_shape(s) == shape[s]

\* line 153
write_overlay(s) ==
    /\ pc[s] = "overlay"
    /\ composite' = [composite EXCEPT ![s] = overlay(layers[s], overlay_shape(s))]
    /\ pc' = [pc EXCEPT ![s] = "imwrite"]
    /\ UNCHANGED <<shape, layers, TIFFIMAGESOURCEDATA_PARAMS_DICT, filepath, ll,
                   image_source_data, calls, outcome, written, writtenFrom,
                   clobbered>>

\* lines 155-172: tifffile.imwrite raises when the path cannot be written
write_imwrite(s) ==
    /\ pc[s] = "imwrite"
    /\ IF filepath[s] = WritablePath
       THEN /\ written' = [written EXCEPT ![s] =
                             [filepath |-> filepath[s],
                              image |-> composite[s],
                              photometric |-> "rgb",
                              compression |-> "adobe_deflate",
                              ImageSourceData |-> image_source_data[s]]]
            /\ writtenFrom' = [writtenFrom EXCEPT ![s] = <<layers[s], shape[s]>>]
            /\ pc' = [pc EXCEPT ![s] = "restore"]
            /\ UNCHANGED <<filepath, ll, image_source_data, composite, outcome,
                           clobbered>>
       ELSE /\ raised(s, "FileNotFoundError")
            /\ UNCHANGED <<written, writtenFrom>>
    /\ UNCHANGED <<shape, layers, TIFFIMAGESOURCEDATA_PARAMS_DICT, calls>>

\* mutant of write_restore: the store's layer list is emptied after the write
write_restore_clearing(s) ==
    /\ pc[s] = "restore"
    /\ TIFFIMAGESOURCEDATA_PARAMS_DICT' =
           [TIFFIMAGESOURCEDATA_PARAMS_DICT EXCEPT !.layers = None]
    /\ pc' = [pc EXCEPT ![s] = "idle"]
    /\ outcome' = [outcome EXCEPT ![s] = "returned"]
    /\ filepath' = [filepath EXCEPT ![s] = NoCall]
    /\ ll' = [ll EXCEPT ![s] = None]
    /\ image_source_data' = [image_source_data EXCEPT ![s] = None]
    /\ composite' = [composite EXCEPT ![s] = None]
    /\ clobbered' = [clobbered EXCEPT ![s] = FALSE]
    /\ layers' = [layers EXCEPT ![s] = <<>>]
    /\ UNCHANGED <<shape, calls, written, writtenFrom>>

\* line 174, and the return
write_restore(s) ==
    /\ pc[s] = "restore"
    /\ TIFFIMAGESOURCEDATA_PARAMS_DICT' =
           [TIFFIMAGESOURCEDATA_PARAMS_DICT EXCEPT !.layers = None]
    /\ pc' = [pc EXCEPT ![s] = "idle"]
    /\ outcome' = [outcome EXCEPT ![s] = "returned"]
    /\ filepath' = [filepath EXCEPT ![s] = NoCall]
    /\ ll' = [ll EXCEPT ![s] = None]
    /\ image_source_data' = [image_source_data EXCEPT ![s] = None]
    /\ composite' = [composite EXCEPT ![s] = None]
    /\ clobbered' = [t \in Stores |->
                        IF t = s THEN FALSE ELSE clobbered[t] \/ t \in awaiting_read(s)]
    /\ UNCHANGED <<shape, layers, calls, written, writtenFrom>>

(***************************************************************************)
(* The specifications.                                                     *)
(***************************************************************************)
Step(s, imgs, offsets) ==
    \/ \E img \in imgs, offset \in offsets : add_layer(s, img, offset)
    \/ \E path \in Filepaths : write_call(s, path)
    \/ write_check(s)
    \/ write_prep(s)
    \/ write_set(s)
    \/ write_build(s)
    \/ write_overlay(s)
    \/ write_imwrite(s)
    \/ write_restore(s)

\* the program as written: single-threaded, one store, a call runs to its end
\* before the next one starts
Next == Step(1, Imgs, Offsets)

Spec == Init /\ [][Next]_vars

\* two stores, one thread per store, interleaved at statement granularity
NextConc == \E s \in Stores : Step(s, ConcImgs, {<<0, 0>>})

SpecConc == Init /\ [][NextConc]_vars

(***************************************************************************)
(* The claims.                                                             *)
(***************************************************************************)
DictLayers == TIFFIMAGESOURCEDATA_PARAMS_DICT.layers

EmptyInputError == "Exception: not enough layers"

\* C1: write on a store that never got a layer ends with the empty-input
\* error, and the check comes first: from the call to the raise, no file is
\* written and the layer list, the canvas shape and the dictionary's 'layers'
\* entry stay as they were.
C1_EmptyWriteFailsFirst ==
    [][\A s \in Stores :
         /\ (pc[s] = "idle" /\ pc'[s] = "check")
                => UNCHANGED <<layers, shape, DictLayers, written>>
         /\ (pc[s] = "check" /\ Len(layers[s]) = 0 /\ pc'[s] # pc[s])
                => /\ pc'[s] = "idle"
                   /\ outcome'[s] = EmptyInputError
                   /\ UNCHANGED <<layers, shape, DictLayers, written>>]_vars

C1_Witness ==
    /\ outcome[1] = EmptyInputError
    /\ calls[1] = <<>>
    /\ shape[1] # None

\* C2: with at least one layer in the store (and a path that can be written),
\* no statement of write raises, the call returns, and the raster handed to
\* the file has the store's canvas (height, width).
C2_WriteSucceedsWithCanvasShape ==
    [][\A s \in Stores :
         (Len(layers[s]) >= 1 /\ filepath[s] = WritablePath /\ pc'[s] # pc[s])
             => /\ outcome'[s] \in {NoCall, "returned"}
                /\ pc'[s] = "idle" => outcome'[s] = "returned"
                /\ pc[s] = "imwrite"
                       => /\ written'[s].filepath = WritablePath
                          /\ shape2(written'[s].image) = shape[s]]_vars

C2_Witness ==
    /\ outcome[1] = "returned"
    /\ Len(layers[1]) = 2
    /\ shape2(layers[1][1][1]) # shape[1]
    /\ shape2(written[1].image) = shape[1]
    /\ writtenFrom[1] = <<layers[1], shape[1]>>

\* C3: a 3-channel input is stored with 4 channels, alpha 128 at every pixel
\* and its three channels as given; a 4-channel input is stored as given;
\* so every stored layer has 4 channels.
C3_AlphaAppended ==
    \A s \in Stores :
        /\ Len(layers[s]) = Len(calls[s])
        /\ \A i \in 1 .. Len(calls[s]) :
              LET given == calls[s][i].img
                  stored == layers[s][i][1]
              IN  /\ stored.shape[3] = 4
                  /\ given.shape[3] = 4 => stored = given
                  /\ given.shape[3] = 3 =>
                        /\ stored.shape = <<given.shape[1], given.shape[2], 4>>
                        /\ DOMAIN stored.data = Idx(given.shape[1], given.shape[2], 4)
                        /\ \A p \in DOMAIN stored.data :
                              IF p[3] = 3 THEN stored.data[p] = 128
                              ELSE stored.data[p] = given.data[p]

C3_Witness ==
    /\ Len(calls[1]) = 2
    /\ calls[1][1].img.shape[3] = 3
    /\ calls[1][2].img.shape[3] = 4
    /\ layers[1][1][1].data[<<0, 0, 3>>] = 128

\* C4: in the records built by write, the layer of the N-th add_layer call
\* (from 0) is named layer_N, whatever was added and whatever was printed,
\* on every write.
C4_PositionalNames ==
    \A s \in Stores :
        ll[s] # None =>
            /\ Len(ll[s].layers) = Len(calls[s])
            /\ \A i \in 1 .. Len(calls[s]) :
                  /\ ll[s].layers[i].name = "layer_" \o ToString(i - 1)
                  /\ ll[s].layers[i].info[1].value = "layer_" \o ToString(i - 1)

C4_Witness ==
    /\ ll[1] # None
    /\ Len(calls[1]) = 2
    /\ ll[1].layers[2].name = "layer_1"
    /\ calls[1][1].printed = {"IMG HAS ONLY 3 CHANNELS", "IMG shape"}
    /\ calls[1][2].printed = {}
    /\ written[1] # None

\* C5: write builds one record per add_layer call, in the order of the calls,
\* and the record of a layer at offset (r, c) with pixels of shape (h, w) has
\* the rectangle (r, c, r + h, c + w), whatever the canvas shape is.
C5_RecordsAndRectangles ==
    \A s \in Stores :
        ll[s] # None =>
            /\ Len(ll[s].layers) = Len(calls[s])
            /\ \A i \in 1 .. Len(calls[s]) :
                  LET r == calls[s][i].offset[1]
                      c == calls[s][i].offset[2]
                      h == layers[s][i][1].shape[1]
                      w == layers[s][i][1].shape[2]
                  IN  /\ ll[s].layers[i].rectangle = <<r, c, r + h, c + w>>
                      /\ layers[s][i][2] = <<r, c>>
                      /\ <<h, w>> = shape2(calls[s][i].img)
                      /\ ll[s].layers[i].channels[2].data = plane(calls[s][i].img, 0)

C5_Witness ==
    /\ ll[1] # None
    /\ Len(calls[1]) = 2
    /\ calls[1][1] # calls[1][2]
    /\ ll[1].layers[2].rectangle = <<1, 0, 2, 2>>
    /\ shape[1] = <<2, 1>>

\* C6: the canvas shape is the one given at construction or, if none was
\* given, the (height, width) of the first layer added; once set, no call
\* changes it.
C6_CanvasShapeFixed ==
    [][\A s \in Stores :
         /\ shape[s] # None => shape'[s] = shape[s]
         /\ (shape[s] = None /\ calls'[s] = calls[s]) => shape'[s] = None
         /\ (shape[s] = None /\ calls'[s] # calls[s])
                => /\ calls[s] = <<>>
                   /\ shape'[s] = shape2(calls'[s][1].img)]_vars

C6_Witness ==
    /\ Len(calls[1]) = 2
    /\ calls[1][1].printed \cap {"IMG shape"} = {}
    /\ shape[1] = shape2(calls[1][1].img)
    /\ shape[1] # shape2(calls[1][2].img)
    /\ outcome[1] = "returned"

\* C7: add_layer never fails and appends exactly one entry, the normalized
\* pixels with the given offset, at the end of the list; a layer whose size
\* differs from the canvas keeps its own size and offset, and the earlier
\* entries stay as they were, in their order.
C7_AddLayerAppendsOne ==
    /\ [](\A s \in Stores, img \in Imgs, offset \in Offsets :
             (pc[s] = "idle" /\ TotalLayers < MaxLayers)
                 => ENABLED add_layer(s, img, offset))
    /\ [][\A s \in Stores :
            calls'[s] # calls[s] =>
                LET n == Len(layers[s])
                    call == calls'[s][Len(calls'[s])]
                IN  /\ Len(calls'[s]) = Len(calls[s]) + 1
                    /\ Len(layers'[s]) = n + 1
                    /\ SubSeq(layers'[s], 1, n) = layers[s]
                    /\ layers'[s][n + 1][2] = call.offset
                    /\ shape2(layers'[s][n + 1][1]) = shape2(call.img)
                    /\ \A p \in DOMAIN call.img.data :
                          layers'[s][n + 1][1].data[p] = call.img.data[p]]_vars

C7_Witness ==
    /\ Len(layers[1]) = 2
    /\ calls[1][2].printed = {"IMG shape"}
    /\ shape2(layers[1][2][1]) # shape[1]
    /\ layers[1][2][2] = <<1, 0>>

\* C8: write leaves the layer list and the canvas shape as they are, and a
\* write made on the store state an earlier write was made on puts the same
\* composite and the same layer records in the file.
C8_WriteIdempotent ==
    [][\A s \in Stores :
         /\ calls'[s] = calls[s] => (layers'[s] = layers[s] /\ shape'[s] = shape[s])
         /\ (pc[s] = "imwrite" /\ pc'[s] = "restore"
                 /\ writtenFrom[s] = <<layers[s], shape[s]>>)
                => /\ written'[s].image = written[s].image
                   /\ written'[s].ImageSourceData.layers
                          = written[s].ImageSourceData.layers]_vars

C8_Witness ==
    /\ pc[1] = "imwrite"
    /\ filepath[1] = WritablePath
    /\ Len(layers[1]) = 2
    /\ writtenFrom[1] = <<layers[1], shape[1]>>
    /\ composite[1] = written[1].image

\* C9: whenever no write call is in progress, the dictionary's 'layers' entry
\* is None: every write leaves it at None, however the call ends.
C9_DictRestored ==
    (\A s \in Stores : pc[s] = "idle") => DictLayers = None

\* C10: a write builds its layer block from its own store's records unless
\* another write assigned the dictionary between this call's assignment
\* (line 149) and its read (line 151); run one after the other, each write
\* embeds its own records. Interleaved, a write can embed the other store's.
C10_OwnRecordsUnlessInterleaved ==
    \A s \in Stores :
        image_source_data[s] # None =>
            \/ image_source_data[s].layers = ll[s]
            \/ clobbered[s]

C10_Witness ==
    \E s \in Stores, t \in Stores :
        /\ s # t
        /\ image_source_data[s] # None
        /\ ll[t] # None
        /\ ll[t] # ll[s]
        /\ image_source_data[s].layers = ll[t]

====
